---- MODULE Spec2Model ----
(***************************************************************************)
(* State-machine model of freesas: SASModel (src/freesas/model.py) and the *)
(* callers of its fineness cache.                                          *)
(*                                                                         *)
(* Numbers.  Coordinates are integers.  Every float the code computes is   *)
(* kept as an exact rational Num(n, d) in lowest terms, or as one of the   *)
(* IEEE specials Inf and NaN that numpy produces on a division by zero.    *)
(* A value the code obtains with a square root (fineness, dist) is kept as *)
(* its square: fineness as d12 (model.py line 99), dist as the argument of *)
(* **0.5 (line 134).  The square root is injective and monotone on the     *)
(* non-negative numbers, so equalities, zero tests and sign tests of the   *)
(* two agree.                                                              *)
(***************************************************************************)
EXTENDS Integers, Sequences, FiniteSets, TLC

VARIABLES
    atoms,      \* SASModel.atoms, per model: a sequence of points <<x, y, z>>
    _fineness,  \* SASModel._fineness, per model: None or the cached value
    _sem,       \* SASModel._sem, per model: the semaphore's counter
    com,        \* SASModel.com, per model
    inertensor, \* SASModel.inertensor, per model
    pc,         \* per thread: the line of the fineness property it is at
    self_,      \* per thread: the model whose property it reads
    local,      \* per thread: x, y, z of _calc_fineness, and a pending exception
    ret,        \* per thread: what its last read of the property gave
    reads,      \* per thread: the reads it has started
    ncalc,      \* per model: calls of _calc_fineness started
    ndone,      \* per model: calls of _calc_fineness that returned a value
    nassign,    \* re-assignments of atoms so far
    res,        \* the last operation of the main thread and its outcome
    grid,       \* the Grid object: inputs, size, nbknots, radius, coordknots
    aver,       \* the AverModels object: inputfiles, outputfile, models
    header,     \* SASModel.header, per model: a text (sequence of characters)
    disk        \* the files: per name None (no such file) or its text

vars == <<atoms, _fineness, _sem, com, inertensor, pc, self_, local, ret,
          reads, ncalc, ndone, nassign, res, grid, aver, header, disk>>

\* The state of average.py's objects.
avervars == <<grid, aver>>

\* A model's header and the files.
iovars == <<header, disk>>

----------------------------------------------------------------------------
(* Bounds *)

\* Largest number of atoms of model "A" in the metric specification.
MaxAtoms == 4
\* Largest number of atoms of model "B" in the metric specification.
MaxOther == 2
\* Reads of the property one thread starts.
MaxReads == 2
\* Calls of _calc_fineness per model the main thread may add.
MaxCalc == 2
\* Re-assignments of atoms by the main thread in the threaded specification.
MaxAssign == 1
\* Depth at which the interpreter stops a recursion (RecursionError).
RecursionLimit == 3
\* Largest number of input files of a Grid or an AverModels.
MaxFiles == 2
\* Largest target count given to calc_radius.
MaxKnots == 3
\* Largest number of lattice sites make_grid walks through.
MaxSites == 40
\* Largest number of models in AverModels.models.
MaxModels == 2

Models == {"A", "B"}
Threads == {"t1", "t2"}
\* The models the threads of the threaded specification share.
Shared == {"A"}

\* Atom positions of the metric specification.
Pts == {<<0, 0, 0>>, <<1, 0, 0>>, <<0, 2, 1>>}

----------------------------------------------------------------------------
(* Values *)

None == [k |-> "None"]
Raise(e) == [k |-> "raise", e |-> e]
Inf == [k |-> "inf"]
NaN == [k |-> "nan"]

Abs(i) == IF i < 0 THEN -i ELSE i

RECURSIVE GCD(_, _)
GCD(a, b) == IF b = 0 THEN a ELSE GCD(b, a % b)

\* The one element of a singleton set.  "v \in {e}" binds v to the value of
\* e, which is then computed once however often v is used.
The(S) == CHOOSE v \in S : TRUE

\* The rational n/d (d # 0) in lowest terms with a positive denominator.
Num(n, d) ==
    The({ [k |-> "num", n |-> (s * a) \div g, d |-> (s * b) \div g] :
          a \in {n}, b \in {d}, g \in {GCD(Abs(n), Abs(d))},
          s \in {IF d < 0 THEN -1 ELSE 1} })

IsNum(v) == v.k = "num"
IsRaise(v) == v.k = "raise"
Zero == Num(0, 1)

RAdd(a, b) == Num(a.n * b.d + b.n * a.d, a.d * b.d)
RSub(a, b) == Num(a.n * b.d - b.n * a.d, a.d * b.d)
RMul(a, b) == Num(a.n * b.n, a.d * b.d)
RLess(a, b) == a.n * b.d < b.n * a.d

\* IEEE float arithmetic on Num, Inf and NaN (no negative infinity arises:
\* every operand of the code's divisions and products is >= 0).
FDiv(a, b) ==
    IF a.k = "nan" \/ b.k = "nan" THEN NaN
    ELSE IF a.k = "inf" THEN (IF b.k = "inf" THEN NaN ELSE Inf)
    ELSE IF b.k = "inf" THEN Zero
    ELSE IF b.n = 0 THEN (IF a.n = 0 THEN NaN ELSE Inf)
    ELSE Num(a.n * b.d, a.d * b.n)

FMul(a, b) ==
    IF a.k = "nan" \/ b.k = "nan" THEN NaN
    ELSE IF a.k = "inf" THEN (IF b.k = "num" /\ b.n = 0 THEN NaN ELSE Inf)
    ELSE IF b.k = "inf" THEN (IF a.n = 0 THEN NaN ELSE Inf)
    ELSE RMul(a, b)

FAdd(a, b) ==
    IF a.k = "nan" \/ b.k = "nan" THEN NaN
    ELSE IF a.k = "inf" \/ b.k = "inf" THEN Inf
    ELSE RAdd(a, b)

RECURSIVE SeqSum(_)
SeqSum(s) == IF s = <<>> THEN 0 ELSE Head(s) + SeqSum(Tail(s))

SetMin(S) == The({ CHOOSE v \in T : \A w \in T : v <= w : T \in {S} })
SetMax(S) == The({ CHOOSE v \in T : \A w \in T : v >= w : T \in {S} })

\* All sequences over S of length 0..n.
SeqsUpTo(S, n) == UNION {[1..k -> S] : k \in 0..n}

----------------------------------------------------------------------------
(* numpy arrays.  A 2-d array is [k, r, c, at]: its shape and its entries.  *)

Col(a, k) == [i \in 1..Len(a) |-> a[i][k]]

BroadcastDim(n1, n2) == IF n1 = 1 THEN n2 ELSE n1
BroadcastIdx(i, n) == IF n = 1 THEN 1 ELSE i

\* numpy's rule: two shapes combine when each dimension agrees or is 1.
Broadcastable(M1, M2) ==
    /\ (M1.r = M2.r \/ M1.r = 1 \/ M2.r = 1)
    /\ (M1.c = M2.c \/ M1.c = 1 \/ M2.c = 1)

MatAdd(M1, M2) ==
    The({ [k |-> "array", r |-> BroadcastDim(A.r, B.r), c |-> BroadcastDim(A.c, B.c),
           at |-> [ij \in (1..BroadcastDim(A.r, B.r)) \X (1..BroadcastDim(A.c, B.c)) |->
                     A.at[<<BroadcastIdx(ij[1], A.r), BroadcastIdx(ij[2], A.c)>>]
                   + B.at[<<BroadcastIdx(ij[1], B.r), BroadcastIdx(ij[2], B.c)>>]]] :
          A \in {M1}, B \in {M2} })

MatSq(M) ==
    The({ [A EXCEPT !.at = [ij \in DOMAIN A.at |-> A.at[ij] * A.at[ij]]] : A \in {M} })
MatScale(s, M) ==
    The({ [A EXCEPT !.at = [ij \in DOMAIN A.at |-> k * A.at[ij]]] : k \in {s}, A \in {M} })
MatMax(M) == The({ SetMax({A.at[ij] : ij \in DOMAIN A.at}) : A \in {M} })
eye(n) == [k |-> "array", r |-> n, c |-> n,
           at |-> [ij \in (1..n) \X (1..n) |-> IF ij[1] = ij[2] THEN 1 ELSE 0]]

\* M.min(axis=0): the minimum of every column; M.min(axis=1): of every row.
MinAxis0(M) ==
    The({ [j \in 1..A.c |-> SetMin({A.at[<<i, j>>] : i \in 1..A.r})] : A \in {M} })
MinAxis1(M) ==
    The({ [i \in 1..A.r |-> SetMin({A.at[<<i, j>>] : j \in 1..A.c})] : A \in {M} })

\* delta_expand adding where the code subtracts.
delta_expand_sum(vec1, vec2) ==
    The({ [k |-> "array", r |-> Len(v1), c |-> Len(v2),
           at |-> [ij \in (1..Len(v1)) \X (1..Len(v2)) |-> v1[ij[1]] + v2[ij[2]]]] :
          v1 \in {vec1}, v2 \in {vec2} })
\* model.py delta_expand: vec1 as a column minus vec2 as a row.
delta_expand(vec1, vec2) ==
    The({ [k |-> "array", r |-> Len(v1), c |-> Len(v2),
           at |-> [ij \in (1..Len(v1)) \X (1..Len(v2)) |-> v1[ij[1]] - v2[ij[2]]]] :
          v1 \in {vec1}, v2 \in {vec2} })

----------------------------------------------------------------------------
(* SASModel._calc_fineness                                                 *)

\* Line 99's diagonal term: D.max() * numpy.eye(x.size).
DiagNoMax(D, n) == MatScale(0, eye(n))
Diag(D, n) == MatScale(MatMax(D), eye(n))

\* Line 99's reduction of the per-column minima: .mean().
MeanAsMin(mins) == Num(SetMin({mins[i] : i \in 1..Len(mins)}), 1)
Mean(mins) == The({ Num(SeqSum(v), Len(v)) : v \in {mins} })

\* Line 98: D, or the ValueError of shapes that do not combine.
pairwise(Dx, Dy, Dz) ==
    IF ~Broadcastable(Dx, Dy) THEN Raise("ValueError")
    ELSE The({ IF ~Broadcastable(Dxy, Dz) THEN Raise("ValueError")
               ELSE MatAdd(Dxy, Dz) : Dxy \in {MatAdd(Dx, Dy)} })

\* Lines 99-101 on D, n being x.size.
d12_of(D, n) ==
    IF IsRaise(D) THEN D
    ELSE The({ IF ~Broadcastable(E, D) THEN Raise("ValueError")
               ELSE Mean(MinAxis0(MatAdd(E, D))) : E \in {Diag(D, n)} })

\* Lines 98-101 on the three columns read at lines 94-96 (the columns have
\* one length unless atoms was re-assigned between the reads).
calc_fineness_of(x, y, z) ==
    The({ d12_of(D, Len(x)) :
          D \in { pairwise(Dx, Dy, Dz) : Dx \in {MatSq(delta_expand(x, x))},
                                         Dy \in {MatSq(delta_expand(y, y))},
                                         Dz \in {MatSq(delta_expand(z, z))} } })

\* self.atoms[:, k] fails on the constructor's empty list (TypeError) and on
\* the empty array read() builds from a file without ATOM lines (IndexError).
ColumnFails(a) == a = <<>>

\* Lines 87-101 run without interruption on the atoms a.
_calc_fineness(a) ==
    IF ColumnFails(a) THEN Raise("IndexError")
    ELSE calc_fineness_of(Col(a, 1), Col(a, 2), Col(a, 3))


----------------------------------------------------------------------------
(* The fineness property (model.py lines 103-109), one step per line, run   *)
(* by any number of threads on any model.                                  *)

NoLocal == [x |-> <<>>, y |-> <<>>, z |-> <<>>, exc |-> None]
Pending == [k |-> "pending"]

\* Line 105: the check made without the semaphore.
unguarded_check(f) == f = None

\* Line 107: the check repeated inside "with self._sem".
NoRecheck(f) == TRUE
recheck(f) == f = None

\* Leaving "with self._sem" (line 106): the semaphore is released whether the
\* block ended normally (exc = None) or by an exception.
ReleaseOnSuccessOnly(s, exc) == IF exc = None THEN s + 1 ELSE s
sem_exit(s, exc) == s + 1

InCalc(t) == pc[t] \in {"l94", "l95", "l96", "l98"}

\* A thread starts reading m.fineness.
Call(t, m) ==
    /\ pc[t] = "idle"
    /\ reads[t] < MaxReads
    /\ pc' = [pc EXCEPT ![t] = "l105"]
    /\ self_' = [self_ EXCEPT ![t] = m]
    /\ reads' = [reads EXCEPT ![t] = @ + 1]
    /\ ret' = [ret EXCEPT ![t] = Pending]
    /\ UNCHANGED <<avervars, iovars>>
    /\ UNCHANGED <<atoms, _fineness, _sem, com, inertensor, local, ncalc, ndone,
                   nassign, res>>

\* if self._fineness is None:
L105(t) ==
    /\ pc[t] = "l105"
    /\ pc' = [pc EXCEPT ![t] =
                IF unguarded_check(_fineness[self_[t]]) THEN "l106" ELSE "l109"]
    /\ UNCHANGED <<avervars, iovars>>
    /\ UNCHANGED <<atoms, _fineness, _sem, com, inertensor, self_, local, ret,
                   reads, ncalc, ndone, nassign, res>>

\* with self._sem: the acquire blocks while the counter is 0.
L106(t) ==
    /\ pc[t] = "l106"
    /\ _sem[self_[t]] > 0
    /\ _sem' = [_sem EXCEPT ![self_[t]] = @ - 1]
    /\ pc' = [pc EXCEPT ![t] = "l107"]
    /\ UNCHANGED <<avervars, iovars>>
    /\ UNCHANGED <<atoms, _fineness, com, inertensor, self_, local, ret, reads,
                   ncalc, ndone, nassign, res>>

\* if self._fineness is None: then line 108 calls self._calc_fineness().
L107(t) ==
    /\ pc[t] = "l107"
    /\ IF recheck(_fineness[self_[t]])
       THEN /\ pc' = [pc EXCEPT ![t] = "l94"]
            /\ ncalc' = [ncalc EXCEPT ![self_[t]] = @ + 1]
       ELSE /\ pc' = [pc EXCEPT ![t] = "exit"]
            /\ UNCHANGED ncalc
    /\ UNCHANGED <<avervars, iovars>>
    /\ UNCHANGED <<atoms, _fineness, _sem, com, inertensor, self_, local, ret,
                   reads, ndone, nassign, res>>

\* Lines 94, 95, 96: x, y, z = self.atoms[:, 0], [:, 1], [:, 2], each a read
\* of self.atoms as it is then.
ReadColumn(t, line, k, next) ==
    /\ pc[t] = line
    /\ IF ColumnFails(atoms[self_[t]])
       THEN /\ local' = [local EXCEPT ![t].exc = Raise("IndexError")]
            /\ pc' = [pc EXCEPT ![t] = "exit"]
       ELSE /\ local' = [local EXCEPT ![t] =
                           IF k = 1 THEN [@ EXCEPT !.x = Col(atoms[self_[t]], 1)]
                           ELSE IF k = 2 THEN [@ EXCEPT !.y = Col(atoms[self_[t]], 2)]
                           ELSE [@ EXCEPT !.z = Col(atoms[self_[t]], 3)]]
            /\ pc' = [pc EXCEPT ![t] = next]
    /\ UNCHANGED <<avervars, iovars>>
    /\ UNCHANGED <<atoms, _fineness, _sem, com, inertensor, self_, ret, reads,
                   ncalc, ndone, nassign, res>>

L94(t) == ReadColumn(t, "l94", 1, "l95")
L95(t) == ReadColumn(t, "l95", 2, "l96")
L96(t) == ReadColumn(t, "l96", 3, "l98")

\* Lines 98-101 and the assignment of line 108.
L98(t) ==
    /\ pc[t] = "l98"
    /\ LET v == calc_fineness_of(local[t].x, local[t].y, local[t].z)
       IN  IF IsRaise(v)
           THEN /\ local' = [local EXCEPT ![t].exc = v]
                /\ UNCHANGED <<_fineness, ndone>>
           ELSE /\ _fineness' = [_fineness EXCEPT ![self_[t]] = v]
                /\ ndone' = [ndone EXCEPT ![self_[t]] = @ + 1]
                /\ UNCHANGED local
    /\ pc' = [pc EXCEPT ![t] = "exit"]
    /\ UNCHANGED <<avervars, iovars>>
    /\ UNCHANGED <<atoms, _sem, com, inertensor, self_, ret, reads, ncalc,
                   nassign, res>>

\* The end of the with block: release, then go on to line 109 or let the
\* exception leave the property.
Exit(t) ==
    /\ pc[t] = "exit"
    /\ _sem' = [_sem EXCEPT ![self_[t]] = sem_exit(@, local[t].exc)]
    /\ IF local[t].exc = None
       THEN /\ pc' = [pc EXCEPT ![t] = "l109"]
            /\ UNCHANGED ret
       ELSE /\ pc' = [pc EXCEPT ![t] = "idle"]
            /\ ret' = [ret EXCEPT ![t] = local[t].exc]
    /\ local' = [local EXCEPT ![t] = NoLocal]
    /\ UNCHANGED <<avervars, iovars>>
    /\ UNCHANGED <<atoms, _fineness, com, inertensor, self_, reads, ncalc, ndone,
                   nassign, res>>

\* return self._fineness
L109(t) ==
    /\ pc[t] = "l109"
    /\ ret' = [ret EXCEPT ![t] = _fineness[self_[t]]]
    /\ pc' = [pc EXCEPT ![t] = "idle"]
    /\ UNCHANGED <<avervars, iovars>>
    /\ UNCHANGED <<atoms, _fineness, _sem, com, inertensor, self_, local, reads,
                   ncalc, ndone, nassign, res>>

ThreadStep(t) ==
    \/ \E m \in Shared : Call(t, m)
    \/ L105(t)
    \/ L106(t)
    \/ L107(t)
    \/ L94(t)
    \/ L95(t)
    \/ L96(t)
    \/ L98(t)
    \/ Exit(t)
    \/ L109(t)


----------------------------------------------------------------------------
(* Operations of the main thread, each run without interruption.           *)
(* A heap h = [a, f, nc, nd] holds atoms, _fineness and the two counters.  *)

Heap == [a |-> atoms, f |-> _fineness, nc |-> ncalc, nd |-> ndone]

\* The fineness property (lines 103-109) read by the main thread: it can take
\* the semaphore at once, or does not need it.
NonBlocking(m) == ~unguarded_check(_fineness[m]) \/ _sem[m] > 0

\* Whether reading m.fineness calls _calc_fineness.
Computes(h, m) == unguarded_check(h.f[m]) /\ recheck(h.f[m])

\* _calc_fineness has given v: lines 108-109.
fineness_fill(h, m, v) ==
    IF IsRaise(v) THEN [h |-> h, out |-> v]
    ELSE [h |-> [h EXCEPT !.f[m] = v, !.nd[m] = @ + 1], out |-> v]

fineness(h, m) ==
    IF ~Computes(h, m) THEN [h |-> h, out |-> h.f[m]]
    ELSE fineness_fill([h EXCEPT !.nc[m] = @ + 1], m, _calc_fineness(h.a[m]))

\* Line 132 with the wrong column of the second model on the first axis.
d2_mixed(mol1, mol2) ==
    MatAdd(MatAdd(MatSq(delta_expand(Col(mol1, 1), Col(mol2, 2))),
                  MatSq(delta_expand(Col(mol1, 2), Col(mol2, 2)))),
           MatSq(delta_expand(Col(mol1, 3), Col(mol2, 3))))
\* Lines 118-132: the squared distance of every atom of mol1 to every atom
\* of mol2.
d2_of(mol1, mol2) ==
    MatAdd(MatAdd(MatSq(delta_expand(Col(mol1, 1), Col(mol2, 1))),
                  MatSq(delta_expand(Col(mol1, 2), Col(mol2, 2)))),
           MatSq(delta_expand(Col(mol1, 3), Col(mol2, 3))))

\* Line 134's two sums: d2.min(axis=1).sum() and d2.min(axis=0).sum().
nearest_sums_swapped(d2) ==
    [rows |-> SeqSum(MinAxis0(d2)), cols |-> SeqSum(MinAxis1(d2))]
nearest_sums(d2) ==
    [rows |-> SeqSum(MinAxis1(d2)), cols |-> SeqSum(MinAxis0(d2))]

\* Line 134 from the values read: n1, n2 the two shape[0], fo2 and fs2 the
\* products other.fineness*other.fineness and self.fineness*self.fineness.
\* The value is the argument of **0.5.  First with other's fineness in both
\* terms, then as written.
dist_value_one_fineness(n1, n2, fo2, fs2, sums) ==
    FMul(Num(1, 2),
         FAdd(FMul(FDiv(Num(1, 1), FMul(Num(n1, 1), fo2)), Num(sums.rows, 1)),
              FMul(FDiv(Num(1, 1), FMul(Num(n2, 1), fo2)), Num(sums.cols, 1))))
dist_value(n1, n2, fo2, fs2, sums) ==
    FMul(Num(1, 2),
         FAdd(FMul(FDiv(Num(1, 1), FMul(Num(n1, 1), fo2)), Num(sums.rows, 1)),
              FMul(FDiv(Num(1, 1), FMul(Num(n2, 1), fs2)), Num(sums.cols, 1))))

\* Line 134 once other.fineness gave ro and self.fineness gave rs.
dist_result(mol1, mol2, ro, rs) ==
    IF IsRaise(rs.out) THEN rs
    ELSE [h |-> rs.h,
          out |-> dist_value(Len(mol1), Len(mol2), ro.out, rs.out,
                             nearest_sums(d2_of(mol1, mol2)))]

\* Line 134 once other.fineness gave ro: self.fineness is read next.
dist_self(s, mol1, mol2, ro) ==
    IF IsRaise(ro.out) THEN ro
    ELSE dist_result(mol1, mol2, ro, fineness(ro.h, s))

\* Lines 111-135: s.dist(o).  Line 134 reads other.fineness before
\* self.fineness (each twice; the second read of each finds the cache).
dist(h, s, o) ==
    IF ColumnFails(h.a[s]) \/ ColumnFails(h.a[o])
    THEN [h |-> h, out |-> Raise("IndexError")]
    ELSE dist_self(s, h.a[s], h.a[o], fineness(h, o))

\* Lines 69-74: centroid calls itself before anything else, so the call at
\* depth RecursionLimit raises and every caller above it passes that on; the
\* assignment to self.com at line 73 runs only if the inner call returned.
RECURSIVE centroid(_, _)
centroid(m, depth) ==
    IF depth >= RecursionLimit THEN Raise("RecursionError")
    ELSE centroid(m, depth + 1)

Vec(v) == [k |-> "vec", v |-> v]

\* Lines 80-85 once self.centroid() has returned c: mol = atoms - c, and
\* entry (i, j) = sum(delta_kron(i, j) * (mol**2).sum(axis=1)
\*                    - mol[:, i] * mol[:, j]) / mol.shape[0].
tensor_about(a, c) ==
    LET mol == [n \in 1..Len(a) |-> [k \in 1..3 |-> RSub(Num(a[n][k], 1), c[k])]]
        sq(n) == RAdd(RAdd(RMul(mol[n][1], mol[n][1]), RMul(mol[n][2], mol[n][2])),
                      RMul(mol[n][3], mol[n][3]))
        term(n, i, j) == RSub(IF i = j THEN sq(n) ELSE Zero, RMul(mol[n][i], mol[n][j]))
        RECURSIVE total(_, _, _)
        total(n, i, j) == IF n = 0 THEN Zero ELSE RAdd(term(n, i, j), total(n - 1, i, j))
        entry(i, j) == RMul(total(Len(a), i, j), Num(1, Len(a)))
    IN  [i \in 1..3 |-> [j \in 1..3 |-> IF i <= j THEN entry(i, j) ELSE entry(j, i)]]

\* Lines 76-85: the call of self.centroid() comes first.
inertiatensor(m, a) ==
    LET c == centroid(m, 1)
    IN  IF IsRaise(c) THEN c ELSE Vec(tensor_about(a, c.v))

Result(op, s, o, out) == [op |-> op, self |-> s, other |-> o, out |-> out]

\* Atoms the main thread assigns in the threaded specification.
SmallClouds ==
    { <<>>,
      << <<0, 0, 0>> >>,
      << <<1, 0, 0>>, <<0, 2, 1>>, <<0, 0, 0>> >> }

\* What an assignment to atoms does to the cache: nothing (atoms is a plain
\* attribute; average.py line 216, model.py line 55).
InvalidateOnAssign(f) == None
after_assign(f) == f

SetAtoms(m, c) ==
    /\ nassign < MaxAssign
    /\ c # atoms[m]
    /\ atoms' = [atoms EXCEPT ![m] = c]
    /\ _fineness' = [_fineness EXCEPT ![m] = after_assign(@)]
    /\ nassign' = nassign + 1
    /\ res' = Result("set_atoms", m, "-", None)
    /\ UNCHANGED <<avervars, iovars>>
    /\ UNCHANGED <<_sem, com, inertensor, pc, self_, local, ret, reads, ncalc,
                   ndone>>

\* m.fineness read by the main thread.
Fineness(m) ==
    /\ NonBlocking(m)
    /\ Computes(Heap, m) => ncalc[m] < MaxCalc
    /\ \E r \in {fineness(Heap, m)} :
           /\ _fineness' = r.h.f
           /\ ncalc' = r.h.nc
           /\ ndone' = r.h.nd
           /\ res' = Result("fineness", m, "-", r.out)
    /\ UNCHANGED <<avervars, iovars>>
    /\ UNCHANGED <<atoms, _sem, com, inertensor, pc, self_, local, ret, reads,
                   nassign>>

\* m._calc_fineness() called directly: it neither reads nor fills the cache.
CalcFineness(m) ==
    /\ res' = Result("_calc_fineness", m, "-", _calc_fineness(atoms[m]))
    /\ UNCHANGED <<avervars, iovars>>
    /\ UNCHANGED <<atoms, _fineness, _sem, com, inertensor, pc, self_, local,
                   ret, reads, ncalc, ndone, nassign>>

\* s.dist(o)
Dist(s, o) ==
    /\ NonBlocking(s) /\ NonBlocking(o)
    /\ \A m \in {s, o} : Computes(Heap, m) => ncalc[m] < MaxCalc
    /\ \E r \in {dist(Heap, s, o)} :
           /\ _fineness' = r.h.f
           /\ ncalc' = r.h.nc
           /\ ndone' = r.h.nd
           /\ res' = Result("dist", s, o, r.out)
    /\ UNCHANGED <<avervars, iovars>>
    /\ UNCHANGED <<atoms, _sem, com, inertensor, pc, self_, local, ret, reads,
                   nassign>>

\* m.centroid()
Centroid(m) ==
    /\ \E c \in {centroid(m, 1)} :
           /\ com' = IF IsRaise(c) THEN com ELSE [com EXCEPT ![m] = c]
           /\ res' = Result("centroid", m, "-", c)
    /\ UNCHANGED <<avervars, iovars>>
    /\ UNCHANGED <<atoms, _fineness, _sem, inertensor, pc, self_, local, ret,
                   reads, ncalc, ndone, nassign>>

\* m.inertiatensor(): the method has no return statement.
Inertiatensor(m) ==
    /\ \E r \in {inertiatensor(m, atoms[m])} :
           /\ inertensor' = IF IsRaise(r) THEN inertensor
                            ELSE [inertensor EXCEPT ![m] = r]
           /\ res' = Result("inertiatensor", m, "-", IF IsRaise(r) THEN r ELSE None)
    /\ UNCHANGED <<avervars, iovars>>
    /\ UNCHANGED <<atoms, _fineness, _sem, com, pc, self_, local, ret, reads,
                   ncalc, ndone, nassign>>

----------------------------------------------------------------------------
(* average.py: Grid.                                                       *)
(*                                                                         *)
(* Numbers.  By lines 68-69 radius^3 = volume / (4 * sqrt(2) * nbknots),   *)
(* so the lattice step a = sqrt(2) * radius of make_grid (line 87) has     *)
(* a^3 = volume / (2 * nbknots), a rational.  Grid.radius is kept as that  *)
(* cube a^3, which grows and shrinks with radius.  A coordinate the code   *)
(* computes as min + k * a is kept as Lat(min, k), and k * a <= d is       *)
(* decided as k^3 * a^3 <= d^3 (d >= 0).                                    *)

IntVal(n) == [k |-> "int", v |-> n]
Lat(o, i) == [k |-> "lat", o |-> o, i |-> i]

\* Grid.__init__ (lines 15-23).
Grid_init(inputfiles) ==
    [inputs |-> inputfiles, size |-> <<>>, nbknots |-> None, radius |-> None,
     coordknots |-> <<>>]

\* SASModel(...) with the arguments args: SASModel.__init__ (model.py line
\* 27) takes no argument besides self.
SASModel_call(args) ==
    IF args # <<>> THEN Raise("TypeError")
    ELSE [k |-> "SASModel", atoms |-> <<>>, _fineness |-> None]

\* Lines 28-49.  With no inputs the loop is skipped and line 43 divides
\* sum([]) by len([]).  Otherwise the first pass of the loop calls
\* SASModel(files) at line 37; were a model constructed, line 42 would read
\* the fineness of its atoms, the constructor's empty list.
spatial_extent(g) ==
    IF g.inputs = <<>> THEN [g |-> g, out |-> Raise("ZeroDivisionError")]
    ELSE The({ IF IsRaise(m) THEN [g |-> g, out |-> m]
               ELSE [g |-> g, out |-> _calc_fineness(m.atoms)] :
               m \in {SASModel_call(<<g.inputs[1]>>)} })

\* Lines 59-60 and 81-82: if len(self.size)==0: self.spatial_extent().
ensure_size(g) ==
    IF Len(g.size) = 0 THEN spatial_extent(g) ELSE [g |-> g, out |-> None]

\* Lines 63-66.
volume_of(size) ==
    RMul(RMul(RSub(size[1], size[4]), RSub(size[2], size[5])),
         RSub(size[3], size[6]))

\* Line 61: the target count when calc_radius is given none.
DefaultKnots == 5000

\* Lines 68-69 (as a^3, see above), with the count multiplying the volume.
radius_times_knots(volume, nbknots) == RMul(volume, Num(nbknots, 2))
\* Lines 68-69 (as a^3, see above).
radius_of(volume, nbknots) == RMul(volume, Num(1, 2 * nbknots))

\* Lines 51-72: nbknots is None or IntVal(n), n >= 1.
calc_radius(g, nbknots) ==
    The({ IF IsRaise(e.out) THEN e
          ELSE The({ [g |-> [e.g EXCEPT !.radius = r], out |-> r] :
                     r \in {radius_of(volume_of(e.g.size),
                                      IF nbknots # None THEN nbknots.v
                                      ELSE DefaultKnots)} }) :
          e \in {ensure_size(g)} })

\* The condition of the while loops of lines 104-112 before rung k is
\* appended: min + k*a <= max, d being max - min.
rung_within(a3, d, k) ==
    d.n >= 0 /\ ~RLess(RMul(d, RMul(d, d)), RMul(Num(k * k * k, 1), a3))

\* The loops of lines 104-112 with one rung more than the condition allows.
RECURSIVE ladder_overshoot(_, _, _)
ladder_overshoot(a3, d, k) ==
    IF k = 0 \/ rung_within(a3, d, k - 1) THEN ladder_overshoot(a3, d, k + 1) ELSE k
\* The loops of lines 104-112 from rung k on: the length of the list.
RECURSIVE ladder(_, _, _)
ladder(a3, d, k) == IF rung_within(a3, d, k) THEN ladder(a3, d, k + 1) ELSE k

\* The indices ylist[start:-1:2] selects in a list of n entries.
slice_to_last(n, start) ==
    [q \in 1..(IF n - 1 > start THEN (n - start) \div 2 ELSE 0) |-> start + 2 * (q - 1)]

RECURSIVE Flatten(_)
Flatten(ss) == IF ss = <<>> THEN <<>> ELSE Head(ss) \o Flatten(Tail(ss))

\* Lines 116-133 for layer i and column j: the knots appended.
knots_of_column(size, ny, i, j) ==
    LET ys == IF i % 2 = 0
              THEN (IF j % 2 = 0 THEN slice_to_last(ny, 0) ELSE slice_to_last(ny, 1))
              ELSE (IF j % 2 = 0 THEN slice_to_last(ny, 1) ELSE slice_to_last(ny, 0))
    IN  [q \in 1..Len(ys) |->
            <<Lat(size[4], j), Lat(size[5], ys[q]), Lat(size[6], i), Zero>>]

\* Lines 114-135: the rows appended to knots, the first row (numpy.empty)
\* deleted.
knots_of(size, nx, ny, nz) ==
    Flatten([ii \in 1..nz |->
        Flatten([jj \in 1..nx |-> knots_of_column(size, ny, ii - 1, jj - 1)])])

\* Lines 119-139 with the new knots appended to those of self.coordknots.
build_grid_append(g) ==
    The({ [g |-> [g EXCEPT !.nbknots = IntVal(Len(knots)),
                           !.coordknots = g.coordknots \o knots],
           out |-> Vec(g.coordknots \o knots)] :
          knots \in {knots_of(g.size,
                              ladder(g.radius, RSub(g.size[1], g.size[4]), 0),
                              ladder(g.radius, RSub(g.size[2], g.size[5]), 0),
                              ladder(g.radius, RSub(g.size[3], g.size[6]), 0))} })
\* Lines 86-139 once size and radius are there.
build_grid(g) ==
    The({ [g |-> [g EXCEPT !.nbknots = IntVal(Len(knots)), !.coordknots = knots],
           out |-> Vec(knots)] :
          knots \in {knots_of(g.size,
                              ladder(g.radius, RSub(g.size[1], g.size[4]), 0),
                              ladder(g.radius, RSub(g.size[2], g.size[5]), 0),
                              ladder(g.radius, RSub(g.size[3], g.size[6]), 0))} })

\* Lines 74-139.
make_grid(g) ==
    The({ IF IsRaise(e.out) THEN e
          ELSE IF e.g.radius = None THEN build_grid(calc_radius(e.g, None).g)
          ELSE build_grid(e.g) :
          e \in {ensure_size(g)} })

\* The number of lattice sites make_grid walks through.
lattice_sites(g) ==
    LET a3 == IF g.radius = None THEN calc_radius(g, None).out ELSE g.radius
    IN  ladder(a3, RSub(g.size[1], g.size[4]), 0)
        * ladder(a3, RSub(g.size[2], g.size[5]), 0)
        * ladder(a3, RSub(g.size[3], g.size[6]), 0)

----------------------------------------------------------------------------
(* average.py: AverModels.  A model of self.models is one of Models; its   *)
(* atoms and its fineness cache are those of the heap.                     *)

NegInf == [k |-> "-inf"]

\* AverModels.__init__ (lines 146-157): the fields the methods below use.
AverModels_init(inputfiles) == [inputfiles |-> inputfiles, models |-> <<>>]

\* Lines 174-178 from i on (i counts from 0), models being the list so far.
RECURSIVE read_rest(_, _, _, _)
read_rest(inputfiles, ref, i, models) ==
    IF i >= Len(inputfiles) THEN Vec(models)
    ELSE IF i = ref THEN read_rest(inputfiles, ref, i + 1, models)
    ELSE The({ IF IsRaise(m) THEN m
               ELSE read_rest(inputfiles, ref, i + 1, Append(models, m)) :
               m \in {SASModel_call(<<inputfiles[i + 1]>>)} })

\* Lines 162-181: reference is None or IntVal(i).  inputfiles[ref] is
\* evaluated before SASModel is called with it.
read_files(av, reference) ==
    LET ref == IF reference # None THEN reference.v ELSE 0
        n == Len(av.inputfiles)
    IN  IF ref >= n \/ ref < -n THEN [av |-> av, out |-> Raise("IndexError")]
        ELSE The({ IF IsRaise(first) THEN [av |-> av, out |-> first]
                   ELSE The({ IF IsRaise(ms) THEN [av |-> av, out |-> ms]
                              ELSE [av |-> [av EXCEPT !.models = ms.v], out |-> ms] :
                              ms \in {read_rest(av.inputfiles, ref, 0, <<first>>)} }) :
                   first \in {SASModel_call(
                       <<av.inputfiles[IF ref >= 0 THEN ref + 1 ELSE n + ref + 1]>>)} })

\* numpy.sqrt (model.py line 100) of a cached d12 whose root is rational.
Root(n) == CHOOSE r \in 0..n : r * r = n
sqrt_of(v) == Num(Root(v.n), Root(v.d))

\* Line 198: the squared distance of an atom to griddot.
dist_to(atom, griddot) ==
    LET dx == RSub(Num(atom[1], 1), griddot[1])
        dy == RSub(Num(atom[2], 1), griddot[2])
        dz == RSub(Num(atom[3], 1), griddot[3])
    IN  RAdd(RAdd(RMul(dx, dx), RMul(dy, dy)), RMul(dz, dz))

\* 1 - q for a float q >= 0.
one_minus(q) ==
    IF q.k = "nan" THEN NaN
    ELSE IF q.k = "inf" THEN NegInf
    ELSE RSub(Num(1, 1), q)

\* Line 199 without the clamp of finite negative values.
no_max(x) == IF x.k = "-inf" THEN Zero ELSE x
\* Python's max(x, 0): x unless 0 > x, and no comparison with nan is true.
py_max0(x) ==
    IF x.k = "nan" THEN NaN
    ELSE IF x.k = "-inf" THEN Zero
    ELSE IF x.n < 0 THEN Zero
    ELSE x

\* Line 199: add = max(1 - dist / (f / 2), 0).
add_of(dist_, f) == py_max0(one_minus(FDiv(dist_, RMul(f, Num(1, 2)))))

\* Lines 194-202 from atom i on; acc holds occ and contrib.
RECURSIVE occupancy_atoms(_, _, _, _, _)
occupancy_atoms(a, f, griddot, i, acc) ==
    IF i > Len(a) THEN acc
    ELSE The({ occupancy_atoms(a, f, griddot, i + 1,
                   IF add # Zero
                   THEN [occ |-> FAdd(acc.occ, add), contrib |-> acc.contrib + 1]
                   ELSE acc) :
               add \in {add_of(dist_to(a[i], griddot), f)} })

Tuple(acc) == [k |-> "tuple", occ |-> acc.occ, contrib |-> acc.contrib]

\* Lines 192-203 with occ and contrib set to zero again for every model.
RECURSIVE occupancy_models_reset(_, _, _, _, _)
occupancy_models_reset(h, models, griddot, k, acc) ==
    IF k > Len(models) THEN [h |-> h, out |-> Tuple(acc)]
    ELSE The({ IF IsRaise(r.out) THEN r
               ELSE occupancy_models_reset(r.h, models, griddot, k + 1,
                        occupancy_atoms(r.h.a[models[k]], sqrt_of(r.out),
                                        griddot, 1, [occ |-> Zero, contrib |-> 0])) :
               r \in {fineness(h, models[k])} })
\* Lines 192-203 from model k of self.models on.
RECURSIVE occupancy_models(_, _, _, _, _)
occupancy_models(h, models, griddot, k, acc) ==
    IF k > Len(models) THEN [h |-> h, out |-> Tuple(acc)]
    ELSE The({ IF IsRaise(r.out) THEN r
               ELSE occupancy_models(r.h, models, griddot, k + 1,
                        occupancy_atoms(r.h.a[models[k]], sqrt_of(r.out),
                                        griddot, 1, acc)) :
               r \in {fineness(h, models[k])} })

\* Lines 183-203.
calc_occupancy(h, av, griddot) ==
    occupancy_models(h, av.models, griddot, 1, [occ |-> Zero, contrib |-> 0])

----------------------------------------------------------------------------
(* Operations on the Grid and the AverModels object, each run by the main  *)
(* thread without interruption.                                            *)

\* The inputs of the operations.
FileNames == <<"a.pdb", "b.pdb", "c.pdb">>
InputLists == {SubSeq(FileNames, 1, n) : n \in 0..MaxFiles}
References == {None} \cup {IntVal(i) : i \in (-(MaxFiles + 1))..MaxFiles}
KnotCounts == {None} \cup {IntVal(n) : n \in 1..MaxKnots}
Half == Num(1, 2)
Box(dx, dy, dz, x, y, z) == <<RAdd(x, dx), RAdd(y, dy), RAdd(z, dz), x, y, z>>
\* Extents with max > min on every axis: three of volume 1, two larger.
Boxes ==
    { Box(Num(1, 1), Num(1, 1), Num(1, 1), Zero, Zero, Zero),
      Box(Num(4, 1), Half, Half, Zero, Zero, Zero),
      Box(Num(2, 1), Num(1, 1), Half, Num(-1, 1), Num(1, 1), Half),
      Box(Num(2, 1), Num(2, 1), Num(1, 1), Zero, Num(-1, 1), Zero),
      Box(Num(2, 1), Num(2, 1), Num(2, 1), Num(-1, 1), Num(-1, 1), Num(-1, 1)) }
Third == Num(1, 3)
GridDots ==
    { <<Zero, Zero, Zero>>, <<Third, Third, Third>>, <<Half, Zero, Zero>>,
      <<Num(1, 1), Zero, Zero>>, <<Num(3, 1), Num(3, 1), Num(3, 1)>> }

\* grid.spatial_extent()
SpatialExtent ==
    /\ \E r \in {spatial_extent(grid)} :
           /\ grid' = r.g
           /\ res' = Result("spatial_extent", "grid", None, r.out)
    /\ UNCHANGED <<atoms, _fineness, _sem, com, inertensor, pc, self_, local,
                   ret, reads, ncalc, ndone, nassign, aver, header, disk>>

\* grid.size = b: size is a plain attribute, and spatial_extent stores none.
SetSize(b) ==
    /\ b # grid.size
    /\ grid' = [grid EXCEPT !.size = b]
    /\ res' = Result("set_size", "grid", None, None)
    /\ UNCHANGED <<atoms, _fineness, _sem, com, inertensor, pc, self_, local,
                   ret, reads, ncalc, ndone, nassign, aver, header, disk>>

\* grid.calc_radius(nbknots)
CalcRadius(nbknots) ==
    /\ \E r \in {calc_radius(grid, nbknots)} :
           /\ grid' = r.g
           /\ res' = Result("calc_radius", "grid", nbknots, r.out)
    /\ UNCHANGED <<atoms, _fineness, _sem, com, inertensor, pc, self_, local,
                   ret, reads, ncalc, ndone, nassign, aver, header, disk>>

\* grid.make_grid(), for lattices of at most MaxSites sites.
MakeGrid ==
    /\ IF Len(grid.size) = 0 THEN TRUE ELSE lattice_sites(grid) <= MaxSites
    /\ \E r \in {make_grid(grid)} :
           /\ grid' = r.g
           /\ res' = Result("make_grid", "grid", None, r.out)
    /\ UNCHANGED <<atoms, _fineness, _sem, com, inertensor, pc, self_, local,
                   ret, reads, ncalc, ndone, nassign, aver, header, disk>>

\* aver.read_files(reference)
ReadFiles(reference) ==
    /\ \E r \in {read_files(aver, reference)} :
           /\ aver' = r.av
           /\ res' = Result("read_files", "aver", reference, r.out)
    /\ UNCHANGED <<atoms, _fineness, _sem, com, inertensor, pc, self_, local,
                   ret, reads, ncalc, ndone, nassign, grid, header, disk>>

\* aver.models = ms: models is a plain attribute, and read_files stores none.
SetModels(ms) ==
    /\ ms # aver.models
    /\ aver' = [aver EXCEPT !.models = ms]
    /\ res' = Result("set_models", "aver", None, None)
    /\ UNCHANGED <<atoms, _fineness, _sem, com, inertensor, pc, self_, local,
                   ret, reads, ncalc, ndone, nassign, grid, header, disk>>

\* aver.calc_occupancy(griddot)
CalcOccupancy(griddot) ==
    /\ \A i \in 1..Len(aver.models) :
           /\ NonBlocking(aver.models[i])
           /\ Computes(Heap, aver.models[i]) => ncalc[aver.models[i]] < MaxCalc
    /\ \E r \in {calc_occupancy(Heap, aver, griddot)} :
           /\ _fineness' = r.h.f
           /\ ncalc' = r.h.nc
           /\ ndone' = r.h.nd
           /\ atoms' = r.h.a
           /\ res' = Result("calc_occupancy", "aver", Vec(griddot), r.out)
    /\ UNCHANGED <<_sem, com, inertensor, pc, self_, local, ret, reads,
                   nassign, grid, aver, header, disk>>

----------------------------------------------------------------------------
(* model.py: read and save.  A text is a sequence of characters, a         *)
(* character a string of length 1; a file is a text.                       *)

Sp(n) == [i \in 1..n |-> " "]
ATOM == <<"A", "T", "O", "M">>
Newline == "\n"

\* str.startswith
startswith(t, prefix) ==
    Len(t) >= Len(prefix) /\ SubSeq(t, 1, Len(prefix)) = prefix

\* t[a:b] and t[a:] of a str, positions counted from 0.
slice(t, a, b) == SubSeq(t, a + 1, IF b < Len(t) THEN b ELSE Len(t))
slice_from(t, a) == SubSeq(t, a + 1, Len(t))

\* The members of a set of numbers in increasing order.
Ascending(S) ==
    [k \in 1..Cardinality(S) |-> CHOOSE x \in S : Cardinality({y \in S : y < x}) = k - 1]

\* The texts of a sequence joined, by halves.
RECURSIVE join(_, _, _)
join(ss, lo, hi) ==
    IF lo > hi THEN <<>>
    ELSE IF lo = hi THEN ss[lo]
    ELSE join(ss, lo, (lo + hi) \div 2) \o join(ss, (lo + hi) \div 2 + 1, hi)

\* "for line in open(filename)": the text cut after every newline; a line
\* starts at the first character and after every newline but the last
\* character's.
lines_of(t) ==
    LET starts == Ascending({i \in 1..Len(t) : i = 1 \/ t[i - 1] = Newline})
    IN  [k \in 1..Len(starts) |->
            SubSeq(t, starts[k],
                   IF k < Len(starts) THEN starts[k + 1] - 1 ELSE Len(t))]

\* "for line in self.header" with header a str: iterating over a str gives
\* its characters, each a str of length 1.
iterate_str(t) == [i \in 1..Len(t) |-> <<t[i]>>]

\* line.split(): the runs of characters between whitespace.
IsSpace(c) == c \in {" ", Newline}
split(t) ==
    LET starts == Ascending({i \in 1..Len(t) :
                                ~IsSpace(t[i]) /\ (i = 1 \/ IsSpace(t[i - 1]))})
        stop(i) == SetMin({j \in i..Len(t) : j = Len(t) \/ IsSpace(t[j + 1])})
    IN  [k \in 1..Len(starts) |-> SubSeq(t, starts[k], stop(starts[k]))]

Digits == <<"0", "1", "2", "3", "4", "5", "6", "7", "8", "9">>
IsDigit(c) == \E d \in 1..10 : Digits[d] = c
DigitVal(c) == (CHOOSE d \in 1..10 : Digits[d] = c) - 1

RECURSIVE Pow10(_)
Pow10(n) == IF n = 0 THEN 1 ELSE 10 * Pow10(n - 1)

\* The number a run of digits writes.
RECURSIVE digits_value(_, _)
digits_value(t, acc) ==
    IF t = <<>> THEN acc ELSE digits_value(Tail(t), 10 * acc + DigitVal(Head(t)))

\* float(tok) for the decimal notation [sign] digits [. digits]; anything
\* else is a ValueError here.
float_unsigned(t) ==
    LET dots == {i \in 1..Len(t) : t[i] = "."}
        ip == IF dots = {} THEN t ELSE SubSeq(t, 1, SetMin(dots) - 1)
        fp == IF dots = {} THEN <<>> ELSE SubSeq(t, SetMin(dots) + 1, Len(t))
    IN  IF \/ Cardinality(dots) > 1
           \/ ip \o fp = <<>>
           \/ \E i \in 1..Len(ip \o fp) : ~IsDigit((ip \o fp)[i])
        THEN Raise("ValueError")
        ELSE Num(digits_value(ip \o fp, 0), Pow10(Len(fp)))

float(tok) ==
    IF tok # <<>> /\ Head(tok) = "-"
    THEN The({ IF IsRaise(v) THEN v ELSE Num(-v.n, v.d) : v \in {float_unsigned(Tail(tok))} })
    ELSE IF tok # <<>> /\ Head(tok) = "+" THEN float_unsigned(Tail(tok))
    ELSE float_unsigned(tok)

\* The digits of n >= 0.
RECURSIVE digits_of(_)
digits_of(n) ==
    IF n < 10 THEN <<Digits[n + 1]>> ELSE Append(digits_of(n \div 10), Digits[(n % 10) + 1])

\* "%8.3f" % v for a whole number v: sign, digits, ".000", filled with
\* spaces on the left to 8 characters, and longer when it does not fit.
format_8_3f(v) ==
    LET body == (IF v < 0 THEN <<"-">> ELSE <<>>) \o digits_of(Abs(v))
                \o <<".", "0", "0", "0">>
    IN  (IF Len(body) < 8 THEN Sp(8 - Len(body)) ELSE <<>>) \o body

\* Lines 46-52 for one line: None, the atom of an ATOM line, or the error.
atom_of_line(line) ==
    IF ~startswith(line, ATOM) THEN None
    ELSE The({ IF Len(args) < 9 THEN Raise("IndexError")
               ELSE The({ IF IsRaise(xyz[1]) THEN xyz[1]
                          ELSE IF IsRaise(xyz[2]) THEN xyz[2]
                          ELSE IF IsRaise(xyz[3]) THEN xyz[3]
                          ELSE Vec(xyz) :
                          xyz \in {<<float(args[7]), float(args[8]), float(args[9])>>} }) :
               args \in {split(line)} })

\* Lines 45-53 from line i on.
RECURSIVE read_lines(_, _, _)
read_lines(ls, i, at) ==
    IF i > Len(ls) THEN Vec(at)
    ELSE The({ IF a = None THEN read_lines(ls, i + 1, at)
               ELSE IF IsRaise(a) THEN a
               ELSE read_lines(ls, i + 1, Append(at, a.v)) :
               a \in {atom_of_line(ls[i])} })

\* Lines 39-55: read(filename) with the files d.  The atoms of the model are
\* whole numbers: the files of the model write no other.
read(d, filename) ==
    IF d[filename] = None THEN [out |-> Raise("IOError")]
    ELSE The({ IF IsRaise(a) THEN [out |-> a]
               ELSE [out |-> None,
                     header |-> d[filename],
                     atoms |-> [k \in 1..Len(a.v) |->
                                  <<a.v[k][1].n, a.v[k][2].n, a.v[k][3].n>>]] :
               a \in {read_lines(lines_of(d[filename]), 1, <<>>)} })

\* Lines 63-67 over the elements ls of the iteration.  Element i uses the
\* atom numbered by the ATOM elements before it (nr); the loop ends with
\* IndexError at the first ATOM element for which there is no atom left, and
\* text is what was written until then.
save_lines(ls, at) ==
    LET is_atom == [i \in 1..Len(ls) |-> startswith(ls[i], ATOM)]
        nr == [i \in 1..Len(ls) |-> Cardinality({j \in 1..(i - 1) : is_atom[j]})]
        failing == {i \in 1..Len(ls) : is_atom[i] /\ nr[i] >= Len(at)}
        last == IF failing = {} THEN Len(ls) ELSE SetMin(failing) - 1
        written == [i \in 1..last |->
                       IF is_atom[i]
                       THEN slice(ls[i], 0, 30)
                            \o format_8_3f(at[nr[i] + 1][1])
                            \o format_8_3f(at[nr[i] + 1][2])
                            \o format_8_3f(at[nr[i] + 1][3])
                            \o slice_from(ls[i], 54)
                       ELSE ls[i]]
    IN  [out |-> IF failing = {} THEN None ELSE Raise("IndexError"),
         text |-> join(written, 1, last)]

\* Lines 57-67: save(filename) of a model with header hdr and atoms at; text
\* is what the file holds when the "with" block is left.
save(hdr, at) == save_lines(iterate_str(hdr), at)

\* The files and their names.
DiskNames == {"a.pdb", "b.pdb", "out.pdb"}

AtomLine(serial, x, y, z) ==
    ATOM \o Sp(6) \o <<serial>> \o Sp(2) \o <<"C", "A">> \o Sp(2)
    \o <<"A", "S", "P">> \o Sp(1) \o <<"A">> \o Sp(3) \o <<serial>> \o Sp(4)
    \o x \o y \o z \o Sp(2) \o <<"1", ".", "0", "0">> \o <<Newline>>

\* a.pdb: a remark that names ATOM, two atoms, TER.  b.pdb: one atom, its x
\* written with one decimal only, and a last line without newline.
InputFiles ==
    [f \in DiskNames |->
        IF f = "a.pdb"
        THEN <<"R", "E", "M", "A", "R", "K", " ">> \o ATOM \o <<"S", Newline>>
             \o AtomLine("1", format_8_3f(0), format_8_3f(0), format_8_3f(0))
             \o AtomLine("2", format_8_3f(1), format_8_3f(0), format_8_3f(0))
             \o <<"T", "E", "R", Newline>>
        ELSE IF f = "b.pdb"
        THEN AtomLine("1", Sp(4) \o <<"-", "1", ".", "0">>, format_8_3f(12),
                      format_8_3f(0))
             \o <<"E", "N", "D">>
        ELSE None]

\* m.read(f)
Read(m, f) ==
    /\ \E r \in {read(disk, f)} :
           /\ IF IsRaise(r.out) THEN UNCHANGED <<atoms, header>>
              ELSE /\ atoms' = [atoms EXCEPT ![m] = r.atoms]
                   /\ header' = [header EXCEPT ![m] = r.header]
           /\ res' = Result("read", m, f, r.out)
    /\ UNCHANGED avervars
    /\ UNCHANGED <<_fineness, _sem, com, inertensor, pc, self_, local, ret,
                   reads, ncalc, ndone, nassign, disk>>

\* m.save(g)
Save(m, g) ==
    /\ \E r \in {save(header[m], atoms[m])} :
           /\ disk' = [disk EXCEPT ![g] = r.text]
           /\ res' = Result("save", m, g, r.out)
    /\ UNCHANGED avervars
    /\ UNCHANGED <<atoms, _fineness, _sem, com, inertensor, pc, self_, local,
                   ret, reads, ncalc, ndone, nassign, header>>

----------------------------------------------------------------------------
(* Specifications *)

\* SASModel.__init__ (lines 27-34), and no thread started.
Constructed ==
    /\ _fineness = [m \in Models |-> None]
    /\ _sem = [m \in Models |-> 1]
    /\ com = [m \in Models |-> Vec(<<>>)]
    /\ inertensor = [m \in Models |-> Vec(<<>>)]
    /\ pc = [t \in Threads |-> "idle"]
    /\ self_ = [t \in Threads |-> "A"]
    /\ local = [t \in Threads |-> NoLocal]
    /\ ret = [t \in Threads |-> Pending]
    /\ reads = [t \in Threads |-> 0]
    /\ ncalc = [m \in Models |-> 0]
    /\ ndone = [m \in Models |-> 0]
    /\ nassign = 0
    /\ header = [m \in Models |-> <<>>]
    /\ res = Result("init", "-", "-", None)

\* No Grid and no AverModels in use: both as constructed on no input.
NoAverage ==
    /\ grid = Grid_init(<<>>)
    /\ aver = AverModels_init(<<>>)

\* No file is read or written.
NoFiles == disk = [f \in DiskNames |-> None]

\* The models as constructed (atoms = []), the shared ones then given atoms
\* (read(), or an assignment).
Init ==
    /\ atoms \in [Models -> SmallClouds]
    /\ \A m \in Models \ Shared : atoms[m] = <<>>
    /\ Constructed
    /\ NoAverage
    /\ NoFiles

\* Threads reading the property of a shared model while the main thread
\* re-assigns its atoms, reads its fineness (as calc_occupancy does at
\* average.py line 193) and calls its dist.
Next ==
    \/ \E t \in Threads : ThreadStep(t)
    \/ \E m \in Shared, c \in SmallClouds : SetAtoms(m, c)
    \/ \E m \in Shared : Fineness(m)
    \/ \E s \in Shared, o \in Shared : Dist(s, o)

Spec == Init /\ [][Next]_vars

\* Every thread that can take a step eventually takes one.
FairSpec == Spec /\ \A t \in Threads : WF_vars(ThreadStep(t))

\* The metrics of one model as functions of its atoms: model "A" holds any
\* atoms over Pts, model "B" is as constructed, and the main thread calls.
InitMetrics ==
    /\ atoms \in [Models -> SeqsUpTo(Pts, MaxAtoms)]
    /\ atoms["B"] = <<>>
    /\ Constructed
    /\ NoAverage
    /\ NoFiles

NextMetrics ==
    \/ \E m \in Models : Fineness(m)
    \/ \E m \in Models : CalcFineness(m)
    \/ \E m \in Models : Centroid(m)
    \/ \E m \in Models : Inertiatensor(m)

SpecMetrics == InitMetrics /\ [][NextMetrics]_vars

\* Points in lexicographic order.
PointLeq(p, q) ==
    \/ p[1] < q[1]
    \/ p[1] = q[1] /\ p[2] < q[2]
    \/ p[1] = q[1] /\ p[2] = q[2] /\ p[3] <= q[3]

Sorted(a) == \A i \in 1..Len(a) : \A j \in i..Len(a) : PointLeq(a[i], a[j])

\* The positions of the second cloud.
OtherPts == {<<0, 0, 0>>, <<1, 0, 0>>}

\* dist as a function of two clouds: model "A" holds any atoms over Pts, listed
\* in lexicographic order, and model "B" any atoms over OtherPts in any order.
InitDist ==
    /\ atoms \in [Models -> SeqsUpTo(Pts, MaxAtoms)]
    /\ Sorted(atoms["A"])
    /\ atoms["B"] \in SeqsUpTo(OtherPts, MaxOther)
    /\ Constructed
    /\ NoAverage
    /\ NoFiles

NextDist ==
    \/ \E m \in Models : Fineness(m)
    \/ \E s \in Models, o \in Models : Dist(s, o)

SpecDist == InitDist /\ [][NextDist]_vars

\* A Grid and an AverModels constructed on one list of input files; the
\* caller assigns extents and calls the methods.
InitGrid ==
    /\ atoms = [m \in Models |-> <<>>]
    /\ Constructed
    /\ NoFiles
    /\ \E l \in InputLists : grid = Grid_init(l) /\ aver = AverModels_init(l)

NextGrid ==
    \/ SpatialExtent
    \/ \E b \in Boxes : SetSize(b)
    \/ \E n \in KnotCounts : CalcRadius(n)
    \/ MakeGrid
    \/ \E ref \in References : ReadFiles(ref)

SpecGrid == InitGrid /\ [][NextGrid]_vars

\* Clouds whose fineness is a rational number: none, 0 (one atom), 1 and 2.
OccClouds ==
    { <<>>,
      << <<0, 0, 0>> >>,
      << <<0, 0, 0>>, <<1, 0, 0>> >>,
      << <<0, 0, 0>>, <<2, 0, 0>>, <<0, 2, 0>> >> }

\* An AverModels whose models the caller assigns, asked for occupancies.
InitOccupancy ==
    /\ atoms \in [Models -> OccClouds]
    /\ Constructed
    /\ NoFiles
    /\ grid = Grid_init(<<>>)
    /\ \E l \in InputLists : aver = AverModels_init(l)

NextOccupancy ==
    \/ \E ms \in SeqsUpTo(Models, MaxModels) : SetModels(ms)
    \/ \E g \in GridDots : CalcOccupancy(g)

SpecOccupancy == InitOccupancy /\ [][NextOccupancy]_vars

\* Clouds assigned to a model that was read: of one and of two atoms.
SaveClouds ==
    { << <<1, 0, 0>> >>, << <<0, 2, 1>> >>,
      << <<0, 0, 0>>, <<-3, 0, 12>> >>, << <<0, 2, 1>>, <<1, 0, 0>> >> }

\* The models as constructed and two files to read.
InitSave ==
    /\ atoms = [m \in Models |-> <<>>]
    /\ Constructed
    /\ NoAverage
    /\ disk = InputFiles

NextSave ==
    \/ \E m \in Models, f \in DiskNames : Read(m, f)
    \/ \E m \in Models, c \in SaveClouds : SetAtoms(m, c)
    \/ \E m \in Models : Save(m, "out.pdb")

SpecSave == InitSave /\ [][NextSave]_vars




----------------------------------------------------------------------------
(* Geometry the properties are stated with, defined on the atoms alone.    *)

SqDist(p, q) ==
    (p[1] - q[1]) * (p[1] - q[1]) + (p[2] - q[2]) * (p[2] - q[2])
    + (p[3] - q[3]) * (p[3] - q[3])

\* The least squared distance from point p to an atom of cloud b.
NearestSq(p, b) == SetMin({SqDist(p, b[j]) : j \in 1..Len(b)})

\* The least squared distance from atom i of cloud a to another atom of a.
NearestOtherSq(a, i) == SetMin({SqDist(a[i], a[j]) : j \in (1..Len(a)) \ {i}})

RECURSIVE SumOver(_, _)
SumOver(f, n) == IF n = 0 THEN 0 ELSE f[n] + SumOver(f, n - 1)

\* At least 2 atoms, not all at the same position.
NonDegenerate(a) == Len(a) >= 2 /\ \E i, j \in 1..Len(a) : a[i] # a[j]

\* Some atom of a shares its position with no other atom of a.
HasLoneAtom(a) == \E i \in 1..Len(a) : \A j \in (1..Len(a)) \ {i} : a[j] # a[i]

MeanPoint(a) == [k \in 1..3 |-> Num(SumOver([i \in 1..Len(a) |-> a[i][k]], Len(a)), Len(a))]

----------------------------------------------------------------------------
(* C1 *)

\* C1, as stated: however the threads interleave when each reads the fineness
\* of one model once (and the main thread does nothing), _calc_fineness is
\* executed at most once for that model.
C1_CalcAtMostOnce ==
    res.op = "init" /\ (\A t \in Threads : reads[t] <= 1)
        => \A m \in Models : ncalc[m] <= 1

\* C1, amended: under every interleaving of the readers of one model,
\* _calc_fineness returns a value at most once, no two executions of it
\* overlap, and none runs once the cache is filled; an execution that raises
\* fills nothing, and the next reader runs it again.
C1_OneCalcReturns ==
    \A m \in Models :
        /\ ndone[m] <= 1
        /\ Cardinality({t \in Threads : InCalc(t) /\ self_[t] = m}) <= 1
        /\ \A t \in Threads : InCalc(t) /\ self_[t] = m => _fineness[m] = None
        /\ _fineness[m] # None <=> ndone[m] = 1

\* Two readers found the cache absent at line 105; one has filled it and is
\* leaving the with block, the other waits for the semaphore.
C1_Witness ==
    \E t, u \in Threads :
        /\ self_[t] = self_[u]
        /\ pc[t] = "exit" /\ pc[u] = "l106"
        /\ ndone[self_[t]] = 1

----------------------------------------------------------------------------
(* C2 *)

\* C2: under fair scheduling every read of the fineness property that has
\* started ends, by returning a value or by raising; this includes reads
\* that arrive after another reader's _calc_fineness failed inside the guard.
C2_ReadsEnd == \A t \in Threads : (pc[t] # "idle") ~> (pc[t] = "idle")

\* One reader's _calc_fineness has raised, and a later reader has taken the
\* semaphore and runs _calc_fineness again.
C2_Witness ==
    \E t, u \in Threads :
        /\ pc[t] = "idle" /\ IsRaise(ret[t])
        /\ self_[t] = self_[u]
        /\ pc[u] = "l94" /\ ncalc[self_[u]] >= 2

----------------------------------------------------------------------------
(* C3 *)

\* C3: once _fineness is filled no step changes it (reads by any thread,
\* dist, re-assignment of atoms), every read that returns after that returns
\* the value it was filled with, and no read returns None.
C3_CacheNeverChanges ==
    [][ /\ \A m \in Models :
              _fineness[m] # None =>
                  /\ _fineness'[m] = _fineness[m]
                  /\ \A t \in Threads :
                        pc[t] = "l109" /\ pc'[t] = "idle" /\ self_[t] = m
                            => ret'[t] = _fineness[m]
        /\ \A t \in Threads : pc[t] = "l109" /\ pc'[t] = "idle" => ret'[t] # None
      ]_vars

\* A read has returned the cached value after atoms was re-assigned to a
\* cloud whose own fineness is another one.
C3_Witness ==
    \E t \in Threads :
        /\ pc[t] = "idle" /\ IsNum(ret[t])
        /\ nassign >= 1
        /\ ret[t] = _fineness[self_[t]]
        /\ _calc_fineness(atoms[self_[t]]) # ret[t]

----------------------------------------------------------------------------
(* C4 *)

\* C4: for a cloud of N >= 2 atoms the square of _calc_fineness() is the mean
\* over the atoms i of the least squared distance from atom i to an atom
\* j # i, and the matrix with its diagonal replaced by the maximum has exactly
\* that least distance as the minimum of line i, coincident atoms included.
C4_MeanNearestOther ==
    \A m \in Models :
        LET a == atoms[m]
        IN  Len(a) >= 2 =>
              /\ res.op = "_calc_fineness" /\ res.self = m =>
                    res.out = Num(SumOver([i \in 1..Len(a) |-> NearestOtherSq(a, i)],
                                          Len(a)), Len(a))
              /\ MinAxis0(MatAdd(Diag(d2_of(a, a), Len(a)), d2_of(a, a)))
                    = [i \in 1..Len(a) |-> NearestOtherSq(a, i)]

\* _calc_fineness has returned a positive value for a cloud of at least 3
\* atoms two of which coincide.
C4_Witness ==
    /\ res.op = "_calc_fineness"
    /\ IsNum(res.out) /\ res.out.n > 0
    /\ LET a == atoms[res.self]
       IN  Len(a) >= 3 /\ \E i, j \in 1..Len(a) : i # j /\ a[i] = a[j]

----------------------------------------------------------------------------
(* C5 *)

\* C5, as stated: the fineness of a cloud of at least 2 atoms that are not all
\* at the same position is strictly positive.
C5_NonDegeneratePositive ==
    res.op = "fineness" /\ NonDegenerate(atoms[res.self])
        => IsNum(res.out) /\ res.out.n > 0

\* C5, amended: the fineness of a cloud of at least 2 atoms in which some
\* atom shares its position with no other atom is strictly positive.
C5_LoneAtomPositive ==
    res.op = "fineness" /\ Len(atoms[res.self]) >= 2 /\ HasLoneAtom(atoms[res.self])
        => IsNum(res.out) /\ res.out.n > 0

\* A positive fineness read from a cloud with a lone atom and two coincident
\* ones.
C5_Witness ==
    /\ res.op = "fineness"
    /\ IsNum(res.out) /\ res.out.n > 0
    /\ LET a == atoms[res.self]
       IN  HasLoneAtom(a) /\ \E i, j \in 1..Len(a) : i # j /\ a[i] = a[j]

----------------------------------------------------------------------------
(* C6 *)

\* C6: computing the fineness of a cloud of fewer than 2 points raises, and
\* leaves no 0 in the cache.
C6_FewAtomsRaise ==
    res.op \in {"fineness", "_calc_fineness"} /\ Len(atoms[res.self]) < 2
        => IsRaise(res.out) /\ _fineness[res.self] # Zero

----------------------------------------------------------------------------
(* C7 *)

\* C7: centroid() of a non-empty cloud returns the arithmetic mean of the atom
\* coordinates, axis by axis.
C7_CentroidIsMean ==
    res.op = "centroid" /\ atoms[res.self] # <<>>
        => res.out = Vec(MeanPoint(atoms[res.self]))

----------------------------------------------------------------------------
(* C8 *)

\* C8: inertiatensor() of a non-empty cloud completes and leaves the symmetric
\* 3x3 tensor about the centroid: entry (i, j) is the sum over the atoms of
\* delta_ij * |r|^2 - r_i * r_j, divided by the number of atoms.
C8_TensorAboutCentroid ==
    res.op = "inertiatensor" /\ atoms[res.self] # <<>>
        => /\ ~IsRaise(res.out)
           /\ inertensor[res.self]
                = Vec(tensor_about(atoms[res.self], MeanPoint(atoms[res.self])))
           /\ \A i, j \in 1..3 :
                inertensor[res.self].v[i][j] = inertensor[res.self].v[j][i]

----------------------------------------------------------------------------
(* C9 *)

\* The sum over the atoms of a of the least squared distance to an atom of b.
SumNearest(a, b) == SumOver([i \in 1..Len(a) |-> NearestSq(a[i], b)], Len(a))

RDiv(a, b) == Num(a.n * b.d, a.d * b.n)

\* C9, as stated: for two non-degenerate clouds A and B the square of
\* A.dist(B) is a number >= 0 and equals
\*   1/2 * (SumNearest(A, B) / (N_A * fineness_B^2)
\*          + SumNearest(B, A) / (N_B * fineness_A^2)),
\* written here with both sides multiplied by the two denominators.
C9_DistFormula ==
    res.op = "dist" /\ NonDegenerate(atoms[res.self]) /\ NonDegenerate(atoms[res.other])
        => LET a == atoms[res.self]
               b == atoms[res.other]
               da == RMul(Num(Len(b), 1), _fineness[res.self])
               db == RMul(Num(Len(a), 1), _fineness[res.other])
           IN  /\ IsNum(res.out)
               /\ res.out.n >= 0
               /\ RMul(RMul(Num(2, 1), res.out), RMul(da, db))
                    = RAdd(RMul(Num(SumNearest(a, b), 1), da),
                           RMul(Num(SumNearest(b, a), 1), db))

\* C9, amended: the same for two non-degenerate clouds whose fineness is not
\* zero (a cloud in which every atom coincides with another one has fineness
\* 0, and dist then divides by zero and gives inf or nan).
C9_DistFormulaNonzero ==
    /\ res.op = "dist"
    /\ NonDegenerate(atoms[res.self]) /\ NonDegenerate(atoms[res.other])
    /\ _fineness[res.self] # Zero /\ _fineness[res.other] # Zero
    => LET a == atoms[res.self]
           b == atoms[res.other]
       IN  /\ IsNum(res.out)
           /\ res.out.n >= 0
           /\ res.out
                = RMul(Num(1, 2),
                       RAdd(RDiv(Num(SumNearest(a, b), 1),
                                 RMul(Num(Len(a), 1), _fineness[res.other])),
                            RDiv(Num(SumNearest(b, a), 1),
                                 RMul(Num(Len(b), 1), _fineness[res.self]))))

\* dist has given a positive value for two non-degenerate clouds of different
\* sizes and different, nonzero fineness.
C9_Witness ==
    /\ res.op = "dist"
    /\ NonDegenerate(atoms[res.self]) /\ NonDegenerate(atoms[res.other])
    /\ Len(atoms[res.self]) # Len(atoms[res.other])
    /\ _fineness[res.self] # Zero /\ _fineness[res.other] # Zero
    /\ _fineness[res.self] # _fineness[res.other]
    /\ SumNearest(atoms[res.self], atoms[res.other])
         # SumNearest(atoms[res.other], atoms[res.self])
    /\ IsNum(res.out) /\ res.out.n > 0

----------------------------------------------------------------------------
(* C10 *)

\* C10, as stated: A.dist(A) is zero for every non-degenerate cloud A, and so
\* is A.dist(B) when B holds the same atom positions as A.
C10_SelfDistZero ==
    /\ res.op = "dist"
    /\ NonDegenerate(atoms[res.self])
    /\ (res.self = res.other \/ atoms[res.self] = atoms[res.other])
    => res.out = Zero

\* C10, amended: the same for every non-degenerate cloud A whose fineness is
\* not zero; for a cloud in which every atom coincides with another one
\* (fineness 0) A.dist(A) is nan.
C10_SelfDistZeroNonzero ==
    /\ res.op = "dist"
    /\ NonDegenerate(atoms[res.self])
    /\ (res.self = res.other \/ atoms[res.self] = atoms[res.other])
    /\ _fineness[res.self] # Zero /\ _fineness[res.other] # Zero
    => res.out = Zero

\* dist has given zero for two models holding the same non-degenerate atoms.
C10_Witness ==
    /\ res.op = "dist"
    /\ res.self # res.other
    /\ NonDegenerate(atoms[res.self])
    /\ atoms[res.self] = atoms[res.other]
    /\ res.out = Zero

----------------------------------------------------------------------------
(* C11 *)

\* Vectors the clouds are translated by.
Shifts == {<<1, 0, 0>>, <<-2, 3, 5>>}

Translate(a, v) == [i \in 1..Len(a) |-> [k \in 1..3 |-> a[i][k] + v[k]]]

\* The atoms of a with two of them exchanged, and a listed backwards: every
\* order is reached by exchanges.
Reorderings(a) ==
    {[i \in 1..Len(a) |-> IF i = p[1] THEN a[p[2]] ELSE IF i = p[2] THEN a[p[1]] ELSE a[i]] :
        p \in {q \in (1..Len(a)) \X (1..Len(a)) : q[1] < q[2]}}
    \cup {[i \in 1..Len(a) |-> a[Len(a) + 1 - i]]}

\* s.dist(o) on models newly constructed and given the atoms at (nothing
\* cached).
FreshDist(at, s, o) ==
    dist([a |-> at, f |-> [m \in Models |-> None],
          nc |-> [m \in Models |-> 0], nd |-> [m \in Models |-> 0]], s, o).out

\* C11: s.dist(o) is the value dist gives after both clouds are translated by
\* one vector (their fineness computed on the translated atoms), and the value
\* it gives when the atoms of s, or those of o, are listed in another order.
C11_DistInvariant ==
    res.op = "dist" =>
        /\ \A v \in Shifts :
              FreshDist([m \in Models |-> Translate(atoms[m], v)],
                        res.self, res.other) = res.out
        /\ \A m \in {res.self, res.other} :
              \A r \in Reorderings(atoms[m]) :
                  FreshDist([atoms EXCEPT ![m] = r], res.self, res.other) = res.out

\* dist has given a positive number for a cloud of at least three atoms at
\* three positions against another cloud of two positions.
C11_Witness ==
    /\ res.op = "dist" /\ res.self # res.other
    /\ IsNum(res.out) /\ res.out.n > 0
    /\ Cardinality({atoms[res.self][i] : i \in 1..Len(atoms[res.self])}) >= 3
    /\ Cardinality({atoms[res.other][i] : i \in 1..Len(atoms[res.other])}) = 2

----------------------------------------------------------------------------
(* C12 *)

\* The atoms the input files hold: clouds of fineness 1, 2 and 1.
FileAtoms(f) ==
    IF f = "a.pdb" THEN << <<0, 0, 0>>, <<1, 0, 0>> >>
    ELSE IF f = "b.pdb" THEN << <<0, 0, 0>>, <<2, 0, 0>>, <<0, 2, 0>> >>
    ELSE << <<3, 1, 1>>, <<3, 1, 2>> >>

RECURSIVE RSum(_)
RSum(s) == IF s = <<>> THEN Zero ELSE RAdd(Head(s), RSum(Tail(s)))

\* The box of the atoms of all inputs, every side moved outwards by the mean
\* of the inputs' fineness.
InflatedBox(inputs) ==
    LET all == Flatten([i \in 1..Len(inputs) |-> FileAtoms(inputs[i])])
        m == RMul(RSum([i \in 1..Len(inputs) |->
                           sqrt_of(_calc_fineness(FileAtoms(inputs[i])))]),
                  Num(1, Len(inputs)))
        hi(k) == Num(SetMax({all[i][k] : i \in 1..Len(all)}), 1)
        lo(k) == Num(SetMin({all[i][k] : i \in 1..Len(all)}), 1)
    IN  <<RAdd(hi(1), m), RAdd(hi(2), m), RAdd(hi(3), m),
          RSub(lo(1), m), RSub(lo(2), m), RSub(lo(3), m)>>

\* C12: on a non-empty list of inputs spatial_extent() returns and stores the
\* box of all atoms inflated by the mean fineness, which holds every atom.
C12_ExtentIsInflatedBox ==
    res.op = "spatial_extent" /\ grid.inputs # <<>>
        => /\ res.out = Vec(InflatedBox(grid.inputs))
           /\ grid.size = InflatedBox(grid.inputs)
           /\ \A i \in 1..Len(grid.inputs) :
                \A j \in 1..Len(FileAtoms(grid.inputs[i])) :
                  \A k \in 1..3 :
                    LET c == Num(FileAtoms(grid.inputs[i])[j][k], 1)
                    IN  ~RLess(grid.size[k], c) /\ ~RLess(c, grid.size[k + 3])

----------------------------------------------------------------------------
(* C13 *)

\* The faults of indexing and of arithmetic.
FaultErrors == {"IndexError", "ZeroDivisionError"}

\* C13: on an empty list of inputs, spatial_extent (called directly, or by
\* calc_radius or make_grid on a Grid without size) and read_files raise an
\* error that is not an index or arithmetic fault, and leave the object as it
\* was.
C13_EmptyListDescriptiveError ==
    [][ /\ ( /\ grid.inputs = <<>> /\ Len(grid.size) = 0
             /\ res'.op \in {"spatial_extent", "calc_radius", "make_grid"} )
            => /\ IsRaise(res'.out)
               /\ res'.out.e \notin FaultErrors
               /\ grid' = grid
        /\ (aver.inputfiles = <<>> /\ res'.op = "read_files")
            => /\ IsRaise(res'.out)
               /\ res'.out.e \notin FaultErrors
               /\ aver' = aver
      ]_vars

----------------------------------------------------------------------------
(* C14 *)

\* The volume of the extent size = (max_x, max_y, max_z, min_x, min_y, min_z).
BoxVolume(size) ==
    RMul(RSub(size[1], size[4]), RMul(RSub(size[2], size[5]), RSub(size[3], size[6])))

\* C14: for an extent of positive volume, calc_radius(n) stores and returns a
\* radius whose cube is proportional to volume / n (here: the kept cube times
\* 2 n is the volume), smaller than that of every smaller count and larger
\* than that of every larger count on the same extent, smaller than that of
\* the same count on every extent of larger volume; without argument the
\* count is 5000.
C14_RadiusMonotone ==
    res.op = "calc_radius" /\ IsNum(res.out) /\ RLess(Zero, BoxVolume(grid.size))
    => LET n == IF res.other = None THEN 5000 ELSE res.other.v
       IN  /\ grid.radius = res.out
           /\ RMul(res.out, Num(2 * n, 1)) = BoxVolume(grid.size)
           /\ \A n2 \in 1..(MaxKnots + 1) :
                /\ n2 > n => RLess(calc_radius(grid, IntVal(n2)).out, res.out)
                /\ n2 < n => RLess(res.out, calc_radius(grid, IntVal(n2)).out)
           /\ \A b \in Boxes :
                RLess(BoxVolume(grid.size), BoxVolume(b))
                    => RLess(res.out, calc_radius([grid EXCEPT !.size = b], res.other).out)

\* calc_radius was given a count of at least 2 on an extent that is neither
\* the smallest nor the largest.
C14_Witness ==
    /\ res.op = "calc_radius" /\ IsNum(res.out)
    /\ res.other # None /\ res.other.v >= 2
    /\ \E b, c \in Boxes : /\ RLess(BoxVolume(b), BoxVolume(grid.size))
                           /\ RLess(BoxVolume(grid.size), BoxVolume(c))

----------------------------------------------------------------------------
(* C15 *)

Cube(q) == RMul(q, RMul(q, q))

\* lo <= c <= hi for the coordinate c = c.o + c.i * a, a^3 being a3 (cubing
\* keeps the order of real numbers).
LatWithin(c, lo, hi, a3) ==
    /\ ~RLess(RMul(Num(c.i * c.i * c.i, 1), a3), Cube(RSub(lo, c.o)))
    /\ ~RLess(Cube(RSub(hi, c.o)), RMul(Num(c.i * c.i * c.i, 1), a3))

\* C15: every knot make_grid() emits lies within the extent on every axis.
C15_KnotsWithinExtent ==
    res.op = "make_grid" /\ ~IsRaise(res.out)
    => /\ grid.coordknots = res.out.v
       /\ \A q \in 1..Len(res.out.v) : \A k \in 1..3 :
            LatWithin(res.out.v[q][k], grid.size[k + 3], grid.size[k], grid.radius)

\* make_grid has emitted a knot off the minimum on two axes, from a radius
\* set by calc_radius.
C15_Witness ==
    /\ res.op = "make_grid" /\ ~IsRaise(res.out)
    /\ \E q \in 1..Len(res.out.v) :
          Cardinality({k \in 1..3 : res.out.v[q][k].i > 0}) >= 2

----------------------------------------------------------------------------
(* C16 *)

\* C16: on an extent of volume 1 with the radius of calc_radius(1) (kept
\* cube 1/2), the radius is positive and make_grid() emits at least one knot.
C16_UnitBoxHasKnot ==
    /\ res.op = "make_grid" /\ ~IsRaise(res.out)
    /\ BoxVolume(grid.size) = Num(1, 1)
    /\ grid.radius = Num(1, 2)
    => /\ RLess(Zero, grid.radius)
       /\ grid.nbknots.v >= 1
       /\ Len(res.out.v) >= 1

----------------------------------------------------------------------------
(* C20 *)

\* The indices i >= 0 with min + i * a <= max, d being max - min.
RungIndices(a3, d) ==
    {i \in 0..MaxSites : ~RLess(Cube(d), RMul(Num(i * i * i, 1), a3))}

\* The knots of the face-centred lattice inside the extent.
LatticeKnots(size, a3) ==
    { <<Lat(size[4], i), Lat(size[5], j), Lat(size[6], k), Zero>> :
        <<i, j, k>> \in
          { t \in RungIndices(a3, RSub(size[1], size[4]))
                  \X RungIndices(a3, RSub(size[2], size[5]))
                  \X RungIndices(a3, RSub(size[3], size[6])) :
            (t[1] + t[2] + t[3]) % 2 = 0 } }

\* C20: make_grid() emits exactly the lattice knots inside the extent whose
\* indices have an even sum, each once, each with 0 as fourth field, and any
\* two of them at least 2 * radius = sqrt(2) * a apart.
C20_KnotsAreLattice ==
    res.op = "make_grid" /\ ~IsRaise(res.out)
    => LET knots == res.out.v
       IN  /\ {knots[q] : q \in 1..Len(knots)} = LatticeKnots(grid.size, grid.radius)
           /\ Cardinality({knots[q] : q \in 1..Len(knots)}) = Len(knots)
           /\ \A q \in 1..Len(knots) : knots[q][4] = Zero
           /\ \A p, q \in 1..Len(knots) :
                p # q =>
                  (knots[p][1].i - knots[q][1].i) * (knots[p][1].i - knots[q][1].i)
                  + (knots[p][2].i - knots[q][2].i) * (knots[p][2].i - knots[q][2].i)
                  + (knots[p][3].i - knots[q][3].i) * (knots[p][3].i - knots[q][3].i)
                  >= 2

----------------------------------------------------------------------------
(* C19 *)

\* Position of the reference file in a list of n files.
RefIndex(reference, n) == IF reference < 0 THEN reference + n + 1 ELSE reference + 1

\* The files in the order the claim gives: the reference, then the rest.
ReferenceFirst(files, reference) ==
    <<files[RefIndex(reference, Len(files))]>>
    \o SelectSeq([q \in 1..Len(files) |-> IF q = RefIndex(reference, Len(files))
                                           THEN "" ELSE files[q]],
                 LAMBDA f : f # "")

\* The reference of the last read_files call, 0 by default.
GivenReference == IF res.other = None THEN 0 ELSE res.other.v

\* C19: for n input files and a reference with -n <= reference < n,
\* read_files(reference) stores and returns n models: the model of the
\* reference file, then the models of the other files in their order, each
\* file once.
C19_ReadFilesReferenceFirst ==
    ( /\ res.op = "read_files"
      /\ GivenReference >= 0 - Len(aver.inputfiles)
      /\ GivenReference < Len(aver.inputfiles) )
    => /\ ~IsRaise(res.out)
       /\ Len(aver.models) = Len(aver.inputfiles)
       /\ res.out = Vec(aver.models)
       /\ [q \in 1..Len(aver.models) |-> aver.models[q].file]
            = ReferenceFirst(aver.inputfiles, GivenReference)

----------------------------------------------------------------------------
(* C17 *)

\* The value of max(1 - d2 / (f / 2), 0) in closed form: (f - 2 * d2) / f
\* where 2 * d2 < f, nan where d2 = 0 = f (0 / 0), and 0 elsewhere.
ClaimAdd(d2, f) ==
    IF f = Zero THEN (IF d2 = Zero THEN NaN ELSE Zero)
    ELSE IF RLess(RMul(Num(2, 1), d2), f)
         THEN RMul(RSub(f, RMul(Num(2, 1), d2)), Num(f.d, f.n))
         ELSE Zero

\* The atoms of the models read, as pairs <<position in models, atom index>>.
AtomsOfModels ==
    {p \in (1..Len(aver.models)) \X (1..MaxAtoms) :
        p[2] <= Len(atoms[aver.models[p[1]]])}

\* add of the atom p for the knot of the last calc_occupancy call.
AddOfAtom(p) ==
    ClaimAdd(dist_to(atoms[aver.models[p[1]]][p[2]], res.other.v),
             sqrt_of(_fineness[aver.models[p[1]]]))

RECURSIVE SumOfAdds(_)
SumOfAdds(ps) ==
    IF ps = {} THEN Zero
    ELSE LET p == CHOOSE q \in ps : TRUE
         IN  RAdd(AddOfAtom(p), SumOfAdds(ps \ {p}))

\* C17: calc_occupancy(knot) returns (occupancy, contribution_count): over
\* the atoms of all models read, with add = max(1 - d2 / (f / 2), 0),
\* contribution_count is the number of atoms with add != 0 and occupancy the
\* sum of those add values (nan as soon as one add is nan); with no models
\* it returns (0.0, 0).  Stated for models that have atoms: an empty model
\* has no fineness.
C17_OccupancyIsSumOfAdds ==
    ( /\ res.op = "calc_occupancy"
      /\ \A k \in 1..Len(aver.models) : atoms[aver.models[k]] # <<>> )
    => LET counted == {p \in AtomsOfModels : AddOfAtom(p) # Zero}
       IN  /\ res.out.k = "tuple"
           /\ res.out.contrib = Cardinality(counted)
           /\ res.out.occ = IF \E p \in counted : AddOfAtom(p) = NaN THEN NaN
                            ELSE SumOfAdds(counted)
           /\ aver.models = <<>> => res.out.occ = Zero /\ res.out.contrib = 0

\* Two models read, some atoms counted and some not, a finite occupancy.
C17_Witness ==
    /\ res.op = "calc_occupancy"
    /\ Len(aver.models) = 2
    /\ res.out.k = "tuple"
    /\ res.out.contrib >= 2
    /\ res.out.contrib < Cardinality(AtomsOfModels)
    /\ res.out.occ.k = "num"
    /\ RLess(Num(1, 1), res.out.occ)

----------------------------------------------------------------------------
(* C18 *)

\* The square of the largest fineness of the models read.
MaxFinenessSq ==
    CHOOSE v \in {_fineness[aver.models[k]] : k \in 1..Len(aver.models)} :
        \A k \in 1..Len(aver.models) : ~RLess(v, _fineness[aver.models[k]])

\* The knot of the last call is farther than (largest fineness) / 2 from
\* every atom of every model: 4 * d2 > fineness^2.
FarFromEveryAtom ==
    \A p \in AtomsOfModels :
        RLess(MaxFinenessSq,
              RMul(Num(4, 1),
                   dist_to(atoms[aver.models[p[1]]][p[2]], res.other.v)))

\* C18: occupancy and contribution_count returned by calc_occupancy are
\* non-negative, and both are zero whenever the knot is farther than
\* (largest model fineness) / 2, in plain distance, from every atom of every
\* model.
C18_ZeroBeyondHalfFineness ==
    (res.op = "calc_occupancy" /\ res.out.k = "tuple")
    => /\ res.out.contrib >= 0
       /\ res.out.occ.k = "num" /\ res.out.occ.n >= 0
       /\ FarFromEveryAtom => res.out.occ = Zero /\ res.out.contrib = 0

----------------------------------------------------------------------------
(* C23 *)

\* C23: for two non-degenerate clouds, s.dist(o) is the value o.dist(s)
\* gives, called next on the same models and on newly constructed ones,
\* whatever the sizes and the fineness of the two.
C23_DistSymmetric ==
    ( /\ res.op = "dist"
      /\ NonDegenerate(atoms[res.self]) /\ NonDegenerate(atoms[res.other]) )
    => /\ dist(Heap, res.other, res.self).out = res.out
       /\ FreshDist(atoms, res.other, res.self) = res.out

\* dist has given a positive number for two clouds that differ in size and
\* in fineness, the first the larger.
C23_Witness ==
    /\ res.op = "dist"
    /\ NonDegenerate(atoms[res.self]) /\ NonDegenerate(atoms[res.other])
    /\ Len(atoms[res.self]) > Len(atoms[res.other])
    /\ _fineness[res.self] # _fineness[res.other]
    /\ _fineness[res.self] # Zero /\ _fineness[res.other] # Zero
    /\ IsNum(res.out) /\ res.out.n > 0

----------------------------------------------------------------------------
(* C24 *)

\* calc_occupancy for the knot of the last call with ms as self.models.
OccupancyOver(ms) == calc_occupancy(Heap, [aver EXCEPT !.models = ms], res.other.v)

\* The component-wise sum of two results.
TupleSum(t1, t2) ==
    [k |-> "tuple", occ |-> FAdd(t1.occ, t2.occ), contrib |-> t1.contrib + t2.contrib]

SubSeqOrEmpty(s, m, n) == [i \in 1..(n - m + 1) |-> s[m + i - 1]]

\* C24: for one knot calc_occupancy is a sum-reduction over the models.
\* Wherever self.models is cut into M1 followed by M2, the result is the
\* component-wise sum of the results over M1 alone and over M2 alone; the
\* models in any other order give the same result; and the call leaves every
\* model's atoms as they were.
C24_OccupancySumReduction ==
    (res.op = "calc_occupancy" /\ res.out.k = "tuple")
    => LET ms == aver.models
       IN  /\ \A c \in 0..Len(ms) :
                 TupleSum(OccupancyOver(SubSeqOrEmpty(ms, 1, c)).out,
                          OccupancyOver(SubSeqOrEmpty(ms, c + 1, Len(ms))).out)
                   = res.out
           /\ \A p \in Permutations(1..Len(ms)) :
                 OccupancyOver([i \in 1..Len(ms) |-> ms[p[i]]]).out = res.out
           /\ OccupancyOver(ms).h.a = atoms

\* Two models of different atoms, each with atoms counted for the knot.
C24_Witness ==
    /\ res.op = "calc_occupancy" /\ res.out.k = "tuple"
    /\ Len(aver.models) = 2
    /\ atoms[aver.models[1]] # atoms[aver.models[2]]
    /\ OccupancyOver(<<aver.models[1]>>).out.contrib > 0
    /\ OccupancyOver(<<aver.models[2]>>).out.contrib > 0
    /\ OccupancyOver(<<aver.models[1]>>).out # OccupancyOver(<<aver.models[2]>>).out
    /\ res.out.occ.k = "num"

----------------------------------------------------------------------------
(* C22 *)

\* radius is set only if size is set, and nbknots only if radius is set.
SetInOrder ==
    /\ grid.radius # None => grid.size # <<>>
    /\ grid.nbknots # None => grid.radius # None

\* What a step of the Grid's calls does to size, radius and the knots:
\* make_grid keeps a size and a radius that are set; the radius is the value
\* the most recent calc_radius returned, no other call changing it once set;
\* and make_grid right after a make_grid leaves the same knots and returns
\* them again.
GridStep ==
    /\ res'.op = "make_grid" =>
          /\ grid.size # <<>> => grid'.size = grid.size
          /\ grid.radius # None => grid'.radius = grid.radius
    /\ (res'.op = "calc_radius" /\ ~IsRaise(res'.out)) => grid'.radius = res'.out
    /\ (res'.op # "calc_radius" /\ grid.radius # None) => grid'.radius = grid.radius
    /\ (res.op = "make_grid" /\ ~IsRaise(res.out) /\ res'.op = "make_grid") =>
          /\ res'.out = res.out
          /\ grid'.coordknots = grid.coordknots
          /\ grid'.nbknots = grid.nbknots

\* C22: in every state reached by spatial_extent, calc_radius and make_grid
\* calls, failing ones included, radius is set only if size is, nbknots only
\* if radius is, and nbknots, when set, is the number of rows of coordknots
\* (coordknots is the empty list until then); make_grid keeps a size or
\* radius already set, builds with the radius of the most recent calc_radius,
\* and when repeated replaces the knots by an identical array.
C22_GridStateOnceBuilt ==
    /\ [](/\ SetInOrder
          /\ IF grid.nbknots = None THEN grid.coordknots = <<>>
             ELSE grid.nbknots = IntVal(Len(grid.coordknots)))
    /\ [][GridStep]_vars

\* make_grid has built at least two knots with the radius a calc_radius call
\* with a count has stored.
C22_Witness ==
    /\ res.op = "make_grid" /\ ~IsRaise(res.out)
    /\ grid.nbknots # None /\ grid.nbknots.v >= 2
    /\ grid.nbknots.v = Len(grid.coordknots)
    /\ \E n \in 1..MaxKnots : grid.radius = radius_of(volume_of(grid.size), n)

----------------------------------------------------------------------------
(* C21 *)

\* The lines of a header that start with ATOM, by position in the header.
AtomLineNumbers(ls) == {i \in 1..Len(ls) : startswith(ls[i], ATOM)}

\* The header with, in its k-th ATOM line, the 24 characters after the
\* first 30 replaced by x, y, z of the k-th atom, 8 characters each with 3
\* decimals, and every other character kept.
RewrittenHeader(hdr, at) ==
    LET ls == lines_of(hdr)
        k(i) == Cardinality({j \in AtomLineNumbers(ls) : j <= i})
    IN  join([i \in 1..Len(ls) |->
                 IF i \in AtomLineNumbers(ls)
                 THEN SubSeq(ls[i], 1, 30)
                      \o format_8_3f(at[k(i)][1]) \o format_8_3f(at[k(i)][2])
                      \o format_8_3f(at[k(i)][3])
                      \o SubSeq(ls[i], 55, Len(ls[i]))
                 ELSE ls[i]],
             1, Len(ls))

\* C21: after read(f), any change of atoms that keeps one atom per ATOM
\* line, and save(g), file g is the stored header with the coordinate
\* columns of the k-th ATOM line replaced by the k-th atom's current x, y, z,
\* each as 8 characters with 3 decimals, and every other character kept.
C21_SaveRewritesCoordinates ==
    ( /\ res.op = "save"
      /\ header[res.self] # <<>>
      /\ Cardinality(AtomLineNumbers(lines_of(header[res.self])))
           = Len(atoms[res.self]) )
    => /\ ~IsRaise(res.out)
       /\ disk[res.other] = RewrittenHeader(header[res.self], atoms[res.self])

====
